---- MODULE Spec2Model ----
(***************************************************************************)
(* Model of apex.amp.opt.OptimWrapper (src/apex/amp/opt.py): the wrapper   *)
(* that scales losses, unscales gradients and decides whether the          *)
(* underlying optimizer's step is forwarded or skipped.                    *)
(*                                                                         *)
(* scale_loss is a generator-based context manager: the model follows the  *)
(* generator's position (pc).  Entering the region runs the code up to the *)
(* yield, the body of the with-block runs while the generator is           *)
(* suspended, a normal exit resumes the generator after the yield, and an  *)
(* exception of the body is thrown into the generator at the yield, where  *)
(* nothing catches it.                                                     *)
(*                                                                         *)
(* LossScaler (apex/amp/scaler.py) is not part of the sources at hand; its *)
(* behaviour is taken from the specification, sections 3 and 4.1.          *)
(*                                                                         *)
(* Gradients are exact rationals n/d, or non-finite (inf or nan), or None  *)
(* (no gradient buffer).  zero_grad() of the underlying optimizer zeroes   *)
(* the buffers in place and leaves an absent buffer absent.  The region    *)
(* body and step() are called one after the other (specification, section  *)
(* 5): step() is not called inside a region and regions are not nested.    *)
(***************************************************************************)
EXTENDS Integers, Sequences, FiniteSets, TLC

\* ---------------------------------------------------------------- bounds
MaxNumLoss == 2      \* num_loss is drawn from 1..MaxNumLoss at construction
NumParams == 1       \* parameters of the underlying optimizer, in iteration order
MaxGrad == 1         \* a backward pass contributes a true gradient in 0..MaxGrad
MaxNum == 3          \* backward passes are cut off above this numerator
MaxDen == 4          \* active regions are cut off above this denominator
MaxScale == 4        \* the scale factor is not doubled beyond this
MaxLoss == 2         \* loss values are drawn from 1..MaxLoss

\* ------------------------------------------- LossScaler configuration
InitScale == 2       \* scale_factor of a fresh LossScaler
ScaleFloor == 1      \* floor of scale_factor
ScaleWindow == 2     \* consecutive clean calls before scale_factor doubles

Params == 1..NumParams
Losses == 1..MaxLoss
Closures == {"None", "closure"}

SlotsOneMore(n) == 0..n

\* lines 15-16: the indices of a list of num_loss elements
Slots(n) == 0..(n - 1)

\* ------------------------------------------------------ gradient values
None == [k |-> "None", n |-> 0, d |-> 1]

\* an element that is inf or nan: all the scaler asks of an element is
\* whether it is finite, and sums and quotients of a non-finite element
\* are non-finite
NonFinite == [k |-> "nonfinite", n |-> 0, d |-> 1]

RECURSIVE GCD(_, _)
GCD(a, b) == IF b = 0 THEN a ELSE GCD(b, a % b)

Fin(n, d) == LET g == GCD(n, d) IN [k |-> "fin", n |-> n \div g, d |-> d \div g]

Zero == Fin(0, 1)

IsFinite(x) == x.k = "fin"

IsNonFinite(x) == x.k = "nonfinite"

\* x + y on the elements of two tensors
Add(x, y) ==
    IF IsNonFinite(x) \/ IsNonFinite(y) THEN NonFinite
    ELSE Fin(x.n * y.d + y.n * x.d, x.d * y.d)

\* x * (1 / s) for a positive scale s
DivBy(x, s) == IF IsFinite(x) THEN Fin(x.n, x.d * s) ELSE x

Max(a, b) == IF a >= b THEN a ELSE b

\* ---------------------------------------------------------------- state
VARIABLES
    active,          \* _amp_handle.is_active()
    cast_cache,      \* parameters for which the handle holds a cast cache
    num_loss,        \* _num_loss
    loss_idx,        \* _loss_idx
    skip_next,       \* _skip_next, indexed 0..num_loss-1
    loss_scaler,     \* _loss_scaler, indexed 0..num_loss-1
    grad,            \* p.grad of every parameter
    pc,              \* position of the scale_loss generator
    loss,            \* scale_loss: the loss argument
    yielded,         \* scale_loss: the value yielded to the body
    loss_scale,      \* scale_loss: the local loss_scale
    cached_grads,    \* scale_loss: the local cached_grads
    loss_backward,   \* what loss.backward of the region's loss object is
    call,            \* the most recent call and how it ended
    completed,       \* history: active regions that ended normally since
                     \* the last step() under an active handle
    cyc_clean,       \* history: see Hist below
    cyc_expect,      \* history: sum of the true gradients of the cycle
    streak,          \* history: see Log below
    cyc_overflow,    \* history: see Log below
    ret_overflow     \* history: see Log below

vars == <<active, cast_cache, num_loss, loss_idx, skip_next, loss_scaler, grad,
          pc, loss, yielded, loss_scale, cached_grads, loss_backward, call,
          completed, cyc_clean, cyc_expect, streak, cyc_overflow, ret_overflow>>

wrapper_vars == <<num_loss, loss_idx, skip_next, loss_scaler>>

region_vars == <<pc, loss, yielded, loss_scale, cached_grads, loss_backward>>

hist_vars == <<completed, cyc_clean, cyc_expect>>

log_vars == <<streak, cyc_overflow, ret_overflow>>

NoGrads == [p \in Params |-> None]

\* the history of a cycle, which begins with the first active region after
\* a step() under an active handle: cyc_clean holds while the cycle began
\* with gradients that were all zero or absent and since then consisted
\* only of active regions whose bodies called backward() on the yielded
\* value, with finite gradients, and that ended normally; cyc_expect is
\* then the sum of the true (unscaled) gradients of these backward passes
NoExpect == [p \in Params |-> [k |-> "fin", n |-> 0, d |-> 1]]

Hist(clean, expect) ==
    /\ cyc_clean' = clean
    /\ cyc_expect' = IF clean THEN expect ELSE NoExpect

\* the history of the unscale_and_update calls.  streak[i] counts the calls
\* on scaler i that found no overflow, since the last call that found one
\* and in rounds of ScaleWindow.  cyc_overflow: a region that ended since
\* the last step() under an active handle reported overflow; ret_overflow:
\* the same since the last such step() that returned, applied or skipped.
LogExit(i, overflow) ==
    /\ streak' = [streak EXCEPT ![i] = IF overflow THEN 0 ELSE (@ + 1) % ScaleWindow]
    /\ cyc_overflow' = (cyc_overflow \/ overflow)
    /\ ret_overflow' = (ret_overflow \/ overflow)

LogStep(c) ==
    /\ cyc_overflow' = (cyc_overflow /\ ~active)
    /\ ret_overflow' = (ret_overflow /\ ~(active /\ c = "None"))
    /\ UNCHANGED streak

\* the record of a call: which operation, its closure argument, how it
\* ended, what it returned, how often it invoked the underlying optimizer's
\* step, with which closure and what that returned, the gradients the
\* optimizer saw, the scale handed to unscale_and_update, the slot a
\* scale_loss call worked on (for step: how many regions the cycle had
\* completed), whether the handle was active for the call, whether
\* warning_wrapper warned, and the side buffer a failing scale_loss call
\* left behind
Call(op, outcome) ==
    [op |-> op, outcome |-> outcome, closure |-> "None", ret |-> "None",
     opt_calls |-> 0, opt_closure |-> "None", opt_ret |-> "None", seen |-> NoGrads,
     unscale_arg |-> 0, loss |-> 0, yielded |-> 0, slot |-> 0,
     was_active |-> FALSE, warned |-> FALSE, cached |-> <<>>]

\* ---------------------------------------------------------- LossScaler
\* LossScaler(): a fresh scaler
NewLossScaler == [loss_scale |-> InitScale, unskipped |-> 0]

\* LossScaler.unscale_and_update, step 1: every gradient that exists is
\* divided in place by the loss_scale argument
UnscaleGrads(g, s) == [p \in Params |-> IF g[p] = None THEN None ELSE DivBy(g[p], s)]

\* LossScaler.unscale_and_update, step 1: the scan for non-finite values
HasOverflow(g) == \E p \in Params : IsNonFinite(g[p])

UpdateScaleLate(sc, overflow) ==
    IF overflow
    THEN [loss_scale |-> Max(ScaleFloor, sc.loss_scale \div 2), unskipped |-> 0]
    ELSE IF sc.unskipped = ScaleWindow
         THEN [loss_scale |-> sc.loss_scale * 2, unskipped |-> 0]
         ELSE [loss_scale |-> sc.loss_scale, unskipped |-> sc.unskipped + 1]

UpdateScaleNoFloor(sc, overflow) ==
    IF overflow
    THEN [loss_scale |-> sc.loss_scale \div 2, unskipped |-> 0]
    ELSE IF sc.unskipped + 1 = ScaleWindow
         THEN [loss_scale |-> sc.loss_scale * 2, unskipped |-> 0]
         ELSE [loss_scale |-> sc.loss_scale, unskipped |-> sc.unskipped + 1]

\* LossScaler.unscale_and_update, steps 2 and 3: the dynamic-scaling policy.
\* scale_factor is a power of two, so \div halves it exactly, except for
\* 1, where the floor wins as it does for 0.5.
UpdateScale(sc, overflow) ==
    IF overflow
    THEN [loss_scale |-> Max(ScaleFloor, sc.loss_scale \div 2), unskipped |-> 0]
    ELSE IF sc.unskipped + 1 = ScaleWindow
         THEN [loss_scale |-> sc.loss_scale * 2, unskipped |-> 0]
         ELSE [loss_scale |-> sc.loss_scale, unskipped |-> sc.unskipped + 1]

TypeOK ==
    /\ active \in BOOLEAN
    /\ num_loss \in 1..MaxNumLoss
    /\ loss_idx \in 0..num_loss
    /\ DOMAIN skip_next = Slots(num_loss)
    /\ DOMAIN loss_scaler = Slots(num_loss)
    /\ pc \in {"idle", "yield21", "yield46"}

\* ------------------------------------------------------------- __init__
NewSkipNextOneMore(n) == [i \in 0..n |-> FALSE]

\* lines 15, 80: [False] * num_loss
NewSkipNext(n) == [i \in Slots(n) |-> FALSE]

\* line 16: [LossScaler() for _ in range(num_loss)]
NewLossScalers(n) == [i \in Slots(n) |-> NewLossScaler]

Init ==
    /\ active \in BOOLEAN
    /\ cast_cache = {}
    /\ num_loss \in 1..MaxNumLoss
    /\ loss_idx = 0
    /\ skip_next = NewSkipNext(num_loss)
    /\ loss_scaler = NewLossScalers(num_loss)
    /\ grad = NoGrads
    /\ pc = "idle"
    /\ loss = 0
    /\ yielded = 0
    /\ loss_scale = 0
    /\ cached_grads = <<>>
    /\ loss_backward = "loss_backward"
    /\ call = Call("__init__", "returned")
    /\ completed = 0
    /\ cyc_clean = FALSE
    /\ cyc_expect = NoExpect
    /\ streak = [i \in DOMAIN loss_scaler |-> 0]
    /\ cyc_overflow = FALSE
    /\ ret_overflow = FALSE

\* ------------------------------------------- the underlying optimizer
\* optimizer.zero_grad(): a gradient buffer that exists is zeroed in place
ZeroGradOf(g) == [p \in Params |-> IF g[p] = None THEN None ELSE Zero]

\* optimizer.step(closure) returns what the closure returned, None without one
OptStepResult(c) == IF c = "None" THEN "None" ELSE "closure_loss"

\* --------------------------------------------------------- the handle
is_active_always(flag) == TRUE

\* lines 20, 65: _amp_handle.is_active()
is_active(flag) == flag

\* ------------------------------------------------------------ scale_loss
ScaledLossUnscaled(l, s) == l

\* line 46: the value yielded by an active region
ScaledLoss(l, s) == l * s

\* lines 36-42: the copy of every gradient, in parameter iteration order
CachedGradsOf(idx, g) == IF idx > 0 THEN [p \in Params |-> g[p]] ELSE <<>>

GradsAfterSaveAlways(idx, g) == ZeroGradOf(g)

GradsAfterSaveNever(idx, g) == g

\* lines 37, 43: the gradients after the save
GradsAfterSave(idx, g) == IF idx > 0 THEN ZeroGradOf(g) ELSE g

\* line 61: the assertion of _cur_loss_scaler
CurLossScalerOK(idx, n) == 0 <= idx /\ idx < n

\* lines 61-62: how _cur_loss_scaler() ends for an index and a list of
\* scalers: the assertion fails, or, where assertions are stripped
\* (python -O), the list is indexed and raises for an index past its end
CurLossScalerOutcomes(idx, n, scalers) ==
    (IF CurLossScalerOK(idx, n) THEN {} ELSE {"AssertionError"})
    \cup (IF idx \in DOMAIN scalers THEN {"ok"} ELSE {"IndexError"})

GradsAfterRestoreDropped(g, cached) == g

\* lines 53-57: the cached gradients are added back
GradsAfterRestore(g, cached) ==
    IF Len(cached) > 0
    THEN [p \in Params |-> IF cached[p] # None THEN Add(g[p], cached[p]) ELSE g[p]]
    ELSE g

NextLossIdxTwice(idx) == idx + 2

NextLossIdxStuck(idx) == idx

\* line 51
NextLossIdx(idx) == idx + 1

\* the region's denominators stay within MaxDen
WithinDen(g, s) == \A p \in Params : IsFinite(g[p]) => DivBy(g[p], s).d <= MaxDen

\* lines 19-46: scale_loss(loss) up to its yield
ScaleLossEnter(l) ==
    /\ pc = "idle"
    /\ UNCHANGED <<active, cast_cache, num_loss, loss_idx, skip_next, loss_scaler>>
    /\ UNCHANGED log_vars
    /\ IF ~is_active(active)
       THEN \* lines 20-21
            /\ pc' = "yield21"
            /\ loss' = l
            /\ yielded' = l
            /\ loss_backward' = "loss_backward"
            /\ call' = [Call("scale_loss", "yielded") EXCEPT
                            !.loss = l, !.yielded = l, !.slot = loss_idx]
            /\ UNCHANGED <<grad, loss_scale, cached_grads, hist_vars>>
       ELSE \* lines 24-43
            /\ loss_backward' = "warning_wrapper"
            /\ grad' = GradsAfterSave(loss_idx, grad)
            /\ \E res \in CurLossScalerOutcomes(loss_idx, num_loss, loss_scaler) :
               IF res = "ok"
               THEN \* lines 45-46
                    LET s == loss_scaler[loss_idx].loss_scale IN
                    /\ WithinDen(grad', s)                         \* cut-off
                    /\ cached_grads' = CachedGradsOf(loss_idx, grad)
                    /\ loss_scale' = s
                    /\ loss' = l
                    /\ yielded' = ScaledLoss(l, s)
                    /\ pc' = "yield46"
                    /\ call' = [Call("scale_loss", "yielded") EXCEPT
                                    !.loss = l, !.yielded = yielded', !.slot = loss_idx,
                                    !.was_active = TRUE]
                    /\ IF completed = 0
                       THEN Hist(\A p \in Params : grad[p] \in {None, Zero}, NoExpect)
                       ELSE UNCHANGED <<cyc_clean, cyc_expect>>
                    /\ UNCHANGED completed
               ELSE \* line 45 raises in _cur_loss_scaler(): the generator ends
                    /\ call' = [Call("scale_loss", res) EXCEPT
                                    !.loss = l, !.slot = loss_idx, !.was_active = TRUE,
                                    !.cached = CachedGradsOf(loss_idx, grad)]
                    /\ pc' = "idle"
                    /\ Hist(FALSE, NoExpect)
                    /\ UNCHANGED <<loss, yielded, loss_scale, cached_grads, completed>>

\* ------------------------------------------------------- the region body
\* what one backward pass contributes to one parameter: nothing (the
\* parameter is not in the graph), a finite gradient, or an overflow
Contribs == {None, NonFinite} \cup {Fin(i, 1) : i \in 0..MaxGrad}

Times(x, f) == IF IsFinite(x) THEN Fin(x.n * f, x.d) ELSE x

\* autograd accumulates f * g into the gradients
Accumulate(cur, g, f) ==
    [p \in Params |-> IF g[p] = None THEN cur[p]
                      ELSE IF cur[p] = None THEN Times(g[p], f)
                      ELSE Add(cur[p], Times(g[p], f))]

\* the gradients stay within MaxNum
WithinNum(g) == \A p \in Params : IsFinite(g[p]) => g[p].n <= MaxNum * g[p].d

ExpectAfter(g) ==
    [p \in Params |-> IF IsFinite(g[p]) THEN Add(cyc_expect[p], g[p]) ELSE cyc_expect[p]]

\* the body calls backward() on the value the region yielded
BackwardYielded(g) ==
    /\ pc \in {"yield21", "yield46"}
    /\ grad' = Accumulate(grad, g, yielded \div loss)
    /\ WithinNum(grad')
    /\ call' = Call("backward", "returned")
    /\ Hist(cyc_clean /\ pc = "yield46" /\ \A p \in Params : ~IsNonFinite(g[p]),
            ExpectAfter(g))
    /\ UNCHANGED <<active, cast_cache, wrapper_vars, region_vars, completed, log_vars>>

\* lines 25-29: the body of an active region calls loss.backward() on the
\* unscaled loss
BackwardLoss(g) ==
    /\ pc = "yield46"
    /\ grad' = Accumulate(grad, g, 1)
    /\ WithinNum(grad')
    /\ call' = [Call("backward", "returned") EXCEPT
                    !.warned = (loss_backward = "warning_wrapper")]
    /\ Hist(FALSE, NoExpect)
    /\ UNCHANGED <<active, cast_cache, wrapper_vars, region_vars, completed, log_vars>>

BodyRaiseRestores ==
    /\ pc \in {"yield21", "yield46"}
    /\ pc' = "idle"
    /\ loss' = 0
    /\ yielded' = 0
    /\ loss_scale' = 0
    /\ cached_grads' = <<>>
    /\ grad' = GradsAfterRestore(grad, cached_grads)
    /\ call' = [Call("scale_loss_exit", "raised") EXCEPT
                    !.was_active = (pc = "yield46"), !.slot = loss_idx,
                    !.cached = cached_grads]
    /\ Hist(FALSE, NoExpect)
    /\ UNCHANGED <<active, cast_cache, wrapper_vars, loss_backward, completed>>
    /\ UNCHANGED log_vars

\* the body raises: the exception is thrown into the generator at its
\* yield (line 21 or 46) and leaves it there
BodyRaise ==
    /\ pc \in {"yield21", "yield46"}
    /\ pc' = "idle"
    /\ loss' = 0
    /\ yielded' = 0
    /\ loss_scale' = 0
    /\ cached_grads' = <<>>
    /\ call' = [Call("scale_loss_exit", "raised") EXCEPT
                    !.was_active = (pc = "yield46"), !.slot = loss_idx,
                    !.cached = cached_grads]
    /\ Hist(FALSE, NoExpect)
    /\ UNCHANGED <<active, cast_cache, wrapper_vars, grad, loss_backward, completed>>
    /\ UNCHANGED log_vars

\* lines 22 and 47-58: the body ends normally and the generator resumes
ScaleLossExit ==
    /\ pc \in {"yield21", "yield46"}
    /\ pc' = "idle"
    /\ loss' = 0
    /\ yielded' = 0
    /\ loss_scale' = 0
    /\ cached_grads' = <<>>
    /\ UNCHANGED <<active, cast_cache, num_loss>>
    /\ IF pc = "yield21"
       THEN \* line 22
            /\ call' = [Call("scale_loss_exit", "returned") EXCEPT
                            !.loss = loss, !.yielded = yielded, !.slot = loss_idx]
            /\ UNCHANGED <<loss_idx, skip_next, loss_scaler, grad, loss_backward, hist_vars>>
            /\ UNCHANGED log_vars
       ELSE LET overflow == HasOverflow(grad)
                unscaled == UnscaleGrads(grad, loss_scale)
            IN  /\ loss_backward' = "loss_backward"
                /\ loss_scaler' = [loss_scaler EXCEPT
                                      ![loss_idx] = UpdateScale(@, overflow)]
                /\ loss_scaler'[loss_idx].loss_scale <= MaxScale   \* cut-off
                /\ skip_next' = [skip_next EXCEPT ![loss_idx] = overflow]
                /\ loss_idx' = NextLossIdx(loss_idx)
                /\ grad' = GradsAfterRestore(unscaled, cached_grads)
                /\ WithinNum(grad')                                \* cut-off
                /\ call' = [Call("scale_loss_exit", "returned") EXCEPT
                                !.loss = loss, !.yielded = yielded, !.slot = loss_idx,
                                !.unscale_arg = loss_scale, !.was_active = TRUE]
                /\ Hist(cyc_clean /\ ~overflow, cyc_expect)
                /\ completed' = completed + 1
                /\ LogExit(loss_idx, overflow)

\* ------------------------------------------------------------------ step
AnySkipFirst(skips) == skips[0]

AnySkipNever(skips) == FALSE

AnySkipAlways(skips) == TRUE

\* line 78: any(self._skip_next)
AnySkip(skips) == \E i \in DOMAIN skips : skips[i]

ClosureGivenNever(c) == FALSE

\* line 74: closure is not None
ClosureGiven(c) == c # "None"

\* lines 64-82
Step(c) ==
    /\ pc = "idle"
    /\ UNCHANGED <<active, num_loss, loss_scaler, grad, region_vars, cyc_clean, cyc_expect>>
    /\ LogStep(c)
    /\ IF ~is_active(active)
       THEN \* lines 65-66
            /\ call' = [Call("step", "returned") EXCEPT
                            !.closure = c, !.ret = OptStepResult(c), !.opt_calls = 1,
                            !.opt_closure = c, !.opt_ret = OptStepResult(c),
                            !.seen = grad, !.slot = completed]
            /\ UNCHANGED <<cast_cache, loss_idx, skip_next, completed>>
       ELSE \* lines 68-72
            /\ loss_idx' = 0
            /\ cast_cache' = {}
            /\ completed' = 0
            /\ IF ClosureGiven(c)
               THEN \* lines 74-77
                    /\ call' = [Call("step", "NotImplementedError") EXCEPT
                                    !.closure = c, !.was_active = TRUE, !.slot = completed]
                    /\ UNCHANGED skip_next
               ELSE IF AnySkip(skip_next)
               THEN \* lines 78-80
                    /\ skip_next' = NewSkipNext(num_loss)
                    /\ call' = [Call("step", "returned") EXCEPT
                                    !.closure = c, !.was_active = TRUE, !.slot = completed]
               ELSE \* lines 81-82
                    /\ call' = [Call("step", "returned") EXCEPT
                                    !.closure = c, !.ret = OptStepResult(c),
                                    !.opt_calls = 1, !.opt_closure = c,
                                    !.opt_ret = OptStepResult(c), !.seen = grad,
                                    !.was_active = TRUE, !.slot = completed]
                    /\ UNCHANGED skip_next

\* ------------------------------------------------- forwarded and outside
\* lines 104-105: zero_grad() is forwarded
ZeroGrad ==
    /\ pc = "idle"
    /\ grad' = ZeroGradOf(grad)
    /\ call' = Call("forwarded", "returned")
    /\ Hist(FALSE, NoExpect)
    /\ UNCHANGED <<active, cast_cache, wrapper_vars, region_vars, completed, log_vars>>

\* the handle is switched on or off between two calls (is_active() of
\* lines 20 and 65)
SetActive(b) ==
    /\ pc = "idle"
    /\ b # active
    /\ active' = b
    /\ call' = Call("handle", "returned")
    /\ UNCHANGED <<cast_cache, wrapper_vars, grad, region_vars, hist_vars, log_vars>>

\* a forward pass under an active handle makes the handle cache casts of
\* the parameters, which remove_cache (line 72) drops
Forward ==
    /\ pc = "idle"
    /\ active
    /\ cast_cache # Params
    /\ cast_cache' = Params
    /\ call' = Call("handle", "returned")
    /\ UNCHANGED <<active, wrapper_vars, grad, region_vars, hist_vars, log_vars>>

Next ==
    \/ \E l \in Losses : ScaleLossEnter(l)
    \/ \E g \in [Params -> Contribs] : BackwardYielded(g)
    \/ \E g \in [Params -> Contribs] : BackwardLoss(g)
    \/ BodyRaise
    \/ ScaleLossExit
    \/ \E c \in Closures : Step(c)
    \/ ZeroGrad
    \/ \E b \in BOOLEAN : SetActive(b)
    \/ Forward

Spec == Init /\ [][Next]_vars

\* ================================================================ claims
\* an absent gradient counts as a zero gradient
GradVal(x) == IF x = None THEN Zero ELSE x

SomeSkip == \E i \in 0..(num_loss - 1) : skip_next[i]

\* C1: a step() with closure=None under an active handle, made while some
\* skip flag is true, does not invoke the underlying optimizer's step, and
\* when it returns every skip flag is false and current_loss_index is 0.
C1_SkipAfterOverflow ==
    [][(call'.op = "step" /\ active /\ call'.closure = "None" /\ SomeSkip)
        => /\ call'.outcome = "returned"
           /\ call'.opt_calls = 0
           /\ \A i \in 0..(num_loss - 1) : skip_next'[i] = FALSE
           /\ loss_idx' = 0]_vars

C1_Witness ==
    /\ call.op = "step" /\ call.was_active /\ call.closure = "None"
    /\ call.outcome = "returned" /\ call.opt_calls = 0
    /\ call.slot = 2
    /\ ~SomeSkip /\ loss_idx = 0

\* C2: with num_losses = 2 and gradients zero at the start of the cycle,
\* after two regions that both completed normally with finite gradients
\* the gradient of every parameter, at the moment step() forwards to the
\* underlying optimizer, is the sum of the two unscaled contributions.
C2_TwoLossSum ==
    (/\ call.op = "step" /\ call.was_active /\ call.opt_calls = 1
     /\ num_loss = 2 /\ call.slot = 2 /\ cyc_clean)
    => \A p \in Params : GradVal(call.seen[p]) = cyc_expect[p]

\* both regions contributed, under scales 1 and 2
C2_Witness ==
    /\ call.op = "step" /\ call.was_active /\ call.opt_calls = 1
    /\ num_loss = 2 /\ call.slot = 2 /\ cyc_clean
    /\ call.seen[1] = [k |-> "fin", n |-> 2, d |-> 1]
    /\ loss_scaler[0] = [loss_scale |-> 1, unskipped |-> 1]
    /\ loss_scaler[1] = [loss_scale |-> 2, unskipped |-> 1]

\* C3: under an active handle step(closure) with a closure fails with
\* NotImplementedError and never invokes the underlying optimizer's step,
\* whether or not a skip flag is set.
C3_ClosureUnsupported ==
    [][(call'.op = "step" /\ active /\ call'.closure # "None")
        => (call'.outcome = "NotImplementedError" /\ call'.opt_calls = 0)]_vars

C3_Witness ==
    /\ call.op = "step" /\ call.closure = "closure"
    /\ call.outcome = "NotImplementedError" /\ call.opt_calls = 0
    /\ SomeSkip

\* C4: under an inactive handle step(closure) invokes the underlying
\* optimizer's step exactly once with the same closure, returns its result
\* and leaves current_loss_index, every skip flag and every scaler as
\* they were.
C4_InactiveStepPassthrough ==
    [][(call'.op = "step" /\ ~active)
        => /\ call'.outcome = "returned"
           /\ call'.opt_calls = 1
           /\ call'.opt_closure = call'.closure
           /\ call'.ret = call'.opt_ret
           /\ UNCHANGED <<loss_idx, skip_next, loss_scaler>>]_vars

C4_Witness ==
    /\ call.op = "step" /\ ~call.was_active /\ ~active
    /\ call.opt_calls = 1 /\ call.closure = "closure" /\ call.ret = "closure_loss"
    /\ SomeSkip /\ loss_idx > 0

\* C5: a region entered under an inactive handle yields the original loss
\* and, at entry and at exit, leaves every scaler, every skip flag,
\* current_loss_index and all gradients as they were; nothing is saved to a
\* side buffer and loss.backward is not intercepted.
C5_InactiveRegionPassthrough ==
    [][/\ (call'.op = "scale_loss" /\ ~active)
            => /\ call'.outcome = "yielded"
               /\ yielded' = call'.loss
               /\ cached_grads' = <<>>
               /\ loss_backward' = "loss_backward"
               /\ UNCHANGED <<loss_idx, skip_next, loss_scaler, grad>>
       /\ (call'.op = "scale_loss_exit" /\ ~call'.was_active)
            => UNCHANGED <<loss_idx, skip_next, loss_scaler, grad, loss_backward>>]_vars

C5_Witness ==
    /\ call.op = "scale_loss_exit" /\ ~call.was_active /\ call.outcome = "returned"
    /\ call.yielded = 2 /\ call.loss = 2
    /\ loss_idx > 0
    /\ \E p \in Params : grad[p].k = "fin" /\ grad[p].n > 0

\* C6, as claimed: 0 <= current_loss_index < num_losses in every reachable
\* state.
C6_IndexBelowNumLosses == 0 <= loss_idx /\ loss_idx < num_loss

\* C6, amended: 0 <= current_loss_index <= num_losses in every reachable
\* state; the index equals num_losses once num_losses regions have
\* completed in a cycle and until step() resets it.
C6_IndexAtMostNumLosses ==
    /\ 0 <= loss_idx /\ loss_idx <= num_loss
    /\ (call.op = "scale_loss_exit" /\ call.was_active /\ call.outcome = "returned"
        /\ call.slot = num_loss - 1) => loss_idx = num_loss

C6_Witness ==
    /\ call.op = "scale_loss_exit" /\ call.was_active /\ call.outcome = "returned"
    /\ num_loss = 2 /\ loss_idx = num_loss

\* C7: under an active handle a scale_loss call made when num_losses
\* regions have completed (current_loss_index = num_losses) fails with an
\* error instead of yielding, and leaves current_loss_index, all skip flags
\* and all scalers as they were.
C7_OverrunFails ==
    [][(call'.op = "scale_loss" /\ active /\ loss_idx = num_loss)
        => /\ call'.outcome \in {"AssertionError", "IndexError"}
           /\ pc' = "idle"
           /\ UNCHANGED <<loss_idx, skip_next, loss_scaler>>]_vars

C7_Witness ==
    /\ call.op = "scale_loss" /\ call.was_active
    /\ call.outcome \in {"AssertionError", "IndexError"}
    /\ loss_idx = num_loss /\ pc = "idle"

\* C8: after an active region has ended, whether its body completed
\* normally or raised, loss.backward is the original backward again.
C8_BackwardRestored ==
    (call.op = "scale_loss_exit" /\ call.was_active) => loss_backward = "loss_backward"

\* C9: the scale handed to unscale_and_update at the exit of an active
\* region is the scale that multiplied the yielded loss at its entry, also
\* when the scaler changes its scale_factor in that call; so after a first
\* region that began with zero gradients and whose backward passes gave
\* finite gradients s*g, the gradients are g and the slot's skip flag is
\* false.
C9_ScaleRoundTrip ==
    (call.op = "scale_loss_exit" /\ call.was_active /\ call.outcome = "returned")
    => /\ call.yielded = call.loss * call.unscale_arg
       /\ (cyc_clean /\ completed = 1)
            => /\ \A p \in Params : GradVal(grad[p]) = cyc_expect[p]
               /\ skip_next[call.slot] = FALSE

\* the scaler doubled its scale_factor in the call
C9_Witness ==
    /\ call.op = "scale_loss_exit" /\ call.was_active /\ call.outcome = "returned"
    /\ cyc_clean /\ completed = 1
    /\ call.unscale_arg = 2 /\ loss_scaler[call.slot].loss_scale = 4
    /\ call.loss = 2 /\ call.yielded = 4
    /\ grad[1] = [k |-> "fin", n |-> 1, d |-> 1]

\* C10: an unscale_and_update call on gradients with a non-finite element
\* returns true, sets the consecutive-success counter to 0 and leaves the
\* scale_factor at max(floor, previous scale_factor / 2); the scale_factor
\* is never below the floor.
C10_OverflowHalves ==
    /\ [](\A i \in 0..(num_loss - 1) : loss_scaler[i].loss_scale >= ScaleFloor)
    /\ [][(/\ call'.op = "scale_loss_exit" /\ call'.was_active
           /\ call'.outcome = "returned"
           /\ \E p \in Params : grad[p].k = "nonfinite")
          => LET prev == loss_scaler[loss_idx].loss_scale
                 new == loss_scaler'[loss_idx].loss_scale
             IN  /\ skip_next'[loss_idx] = TRUE
                 /\ loss_scaler'[loss_idx].unskipped = 0
                 /\ IF prev >= 2 * ScaleFloor THEN 2 * new = prev ELSE new = ScaleFloor]_vars

\* an overflow at the floor: the scale_factor stays at the floor
C10_Witness ==
    /\ call.op = "scale_loss_exit" /\ call.was_active /\ call.outcome = "returned"
    /\ skip_next[call.slot]
    /\ call.unscale_arg = ScaleFloor
    /\ loss_scaler[call.slot] = [loss_scale |-> ScaleFloor, unskipped |-> 0]

\* an active region has just ended normally
ActiveExit == call'.op = "scale_loss_exit" /\ call'.was_active /\ call'.outcome = "returned"

NoOverflowNow == \A p \in Params : grad[p].k # "nonfinite"

\* C11: with threshold N, the scale_factor is unchanged by each of the
\* first N-1 consecutive unscale_and_update calls without overflow, the
\* N-th doubles it exactly once and resets the counter to 0, and a call
\* with overflow restarts the count from 0.
C11_DoubleAfterWindow ==
    [][ActiveExit =>
        LET prev == loss_scaler[loss_idx]
            new == loss_scaler'[loss_idx]
        IN  /\ (NoOverflowNow /\ streak[loss_idx] + 1 < ScaleWindow)
                => (new.loss_scale = prev.loss_scale /\ new.unskipped = streak[loss_idx] + 1)
            /\ (NoOverflowNow /\ streak[loss_idx] + 1 = ScaleWindow)
                => (new.loss_scale = 2 * prev.loss_scale /\ new.unskipped = 0)
            /\ ~NoOverflowNow => new.unskipped = 0
            /\ new.unskipped = streak'[loss_idx]]_vars

\* the scale_factor, halved to 1 by an overflow, doubles at the second
\* call without overflow
C11_Witness ==
    /\ call.op = "scale_loss_exit" /\ call.was_active /\ call.outcome = "returned"
    /\ call.unscale_arg = 1
    /\ loss_scaler[call.slot] = [loss_scale |-> 2, unskipped |-> 0]
    /\ streak[call.slot] = 0
    /\ ~skip_next[call.slot]

\* C12: in every reachable state the number of skip flags equals the
\* number of scalers equals num_losses.
C12_ListLengths ==
    /\ DOMAIN skip_next = 0..(num_loss - 1)
    /\ DOMAIN loss_scaler = 0..(num_loss - 1)
    /\ Cardinality(DOMAIN skip_next) = num_loss
    /\ Cardinality(DOMAIN loss_scaler) = num_loss

\* after a step() that skipped and rebuilt the list of two skip flags
C12_Witness ==
    /\ call.op = "step" /\ call.was_active /\ call.outcome = "returned"
    /\ call.opt_calls = 0 /\ cyc_overflow = FALSE
    /\ Cardinality(DOMAIN skip_next) = 2 /\ num_loss = 2
    /\ loss_scaler[1].loss_scale = 1

\* C13, as claimed: whatever the handle's active flag does, the underlying
\* optimizer's step is never invoked through the wrapper while a skip flag
\* is true.
C13_NeverStepWhileSkip ==
    (call.op = "step" /\ call.opt_calls > 0) => ~SomeSkip

\* C13, amended: a step() call made under an active handle never invokes
\* the underlying optimizer's step while a skip flag is true; a step() call
\* made under an inactive handle forwards whatever the skip flags are.
C13_NoActiveStepWhileSkip ==
    [][/\ (call'.op = "step" /\ call'.opt_calls > 0 /\ active) => ~SomeSkip
       /\ (call'.op = "step" /\ ~active) => call'.opt_calls = 1]_vars

\* an applied step under an active handle, after an earlier overflow of
\* slot 0 was consumed by a skipping step
C13_Witness ==
    /\ call.op = "step" /\ call.was_active /\ call.opt_calls = 1
    /\ call.slot = num_loss /\ ~SomeSkip
    /\ loss_scaler[0].loss_scale = 1

\* C14, as claimed: an active step() without closure forwards to the
\* optimizer whenever no region completed since the most recent active
\* step() call, one that failed on a closure included, reported overflow.
C14_NoSpuriousSkip ==
    [][(call'.op = "step" /\ active /\ call'.closure = "None" /\ ~cyc_overflow)
          => call'.opt_calls = 1]_vars

\* C14, amended: an active step() without closure forwards to the optimizer
\* whenever no region completed since the most recent active step() call
\* that returned reported overflow; a step() that failed on a closure
\* argument leaves the skip flags set and does not start a new cycle.
C14_NoSpuriousSkipSinceReturn ==
    [][(call'.op = "step" /\ active /\ call'.closure = "None" /\ ~ret_overflow)
          => (call'.opt_calls = 1 /\ call'.outcome = "returned")]_vars

\* an applied step of a cycle that ran only slot 0, after slot 1 overflowed
\* in an earlier cycle
C14_Witness ==
    /\ call.op = "step" /\ call.was_active /\ call.opt_calls = 1
    /\ call.closure = "None" /\ ~ret_overflow
    /\ num_loss = 2 /\ call.slot = 1
    /\ loss_scaler[1].loss_scale < InitScale

\* C15: when the body of an active region entered at an index above 0
\* raises, no exit processing runs: the gradients saved at entry are not
\* added back, unscale_and_update is not called, and the skip flags, the
\* scalers and the loss index are as they were.
C15_RaiseSkipsExit ==
    [][(/\ call'.op = "scale_loss_exit" /\ call'.outcome = "raised"
        /\ pc = "yield46" /\ loss_idx > 0)
          => /\ grad' = grad
             /\ call'.unscale_arg = 0
             /\ call'.cached = cached_grads
             /\ skip_next' = skip_next
             /\ loss_scaler' = loss_scaler
             /\ loss_idx' = loss_idx]_vars

\* a body raised in a second region before any backward pass: the
\* gradient of the first region is lost with the generator's frame
C15_Witness ==
    /\ call.op = "scale_loss_exit" /\ call.outcome = "raised"
    /\ call.was_active /\ call.slot = 1 /\ loss_idx = 1
    /\ Len(call.cached) > 0
    /\ IsFinite(call.cached[1]) /\ call.cached[1] # Zero
    /\ grad[1] = Zero

\* C16: the k-th region (0-based) completed normally in a cycle under an
\* active handle reads the scale of scaler k, updates scaler k only, writes
\* skip_next[k] only, with that scaler's overflow result, and adds exactly
\* 1 to the loss index; every other slot keeps its flag and its scale.
C16_SlotAlignment ==
    [][/\ (call'.op = "scale_loss" /\ call'.outcome = "yielded" /\ call'.was_active)
            => /\ completed \in DOMAIN loss_scaler
               /\ loss_scale' = loss_scaler[completed].loss_scale
               /\ yielded' = call'.loss * loss_scaler[completed].loss_scale
       /\ ActiveExit
            => /\ completed \in DOMAIN loss_scaler
               /\ call'.unscale_arg = loss_scaler[completed].loss_scale
               /\ skip_next'[completed] = HasOverflow(grad)
               /\ loss_scaler'[completed].loss_scale
                      \in {loss_scaler[completed].loss_scale,
                           Max(loss_scaler[completed].loss_scale \div 2, ScaleFloor),
                           loss_scaler[completed].loss_scale * 2}
               /\ \A i \in DOMAIN skip_next \ {completed} :
                      skip_next'[i] = skip_next[i]
               /\ \A i \in DOMAIN loss_scaler \ {completed} :
                      loss_scaler'[i] = loss_scaler[i]
               /\ loss_idx' = loss_idx + 1]_vars

\* the second region of a cycle overflowed and the first did not: slot 1
\* alone is flagged and halved
C16_Witness ==
    /\ call.op = "scale_loss_exit" /\ call.outcome = "returned" /\ call.was_active
    /\ call.slot = 1 /\ loss_idx = 2 /\ completed = 2
    /\ skip_next[1] /\ ~skip_next[0]
    /\ loss_scaler[0].loss_scale = InitScale
    /\ loss_scaler[1].loss_scale < InitScale

\* C17: in every reachable state the loss index is the number of regions
\* entered under an active handle and completed normally since the most
\* recent step() made under an active handle (or since construction);
\* regions entered while inactive, regions whose body raised and step()
\* calls made while inactive do not change it.
C17_IndexCountsRegions ==
    /\ [](loss_idx = completed)
    /\ [][/\ (call'.op \in {"scale_loss", "scale_loss_exit", "step"} /\ ~call'.was_active)
               => loss_idx' = loss_idx
          /\ call'.outcome = "raised" => loss_idx' = loss_idx
          /\ ActiveExit => loss_idx' = loss_idx + 1
          /\ (call'.op = "step" /\ call'.was_active) => loss_idx' = 0]_vars

\* a step() made while inactive after one completed active region: the
\* index still counts that region
C17_Witness ==
    /\ call.op = "step" /\ ~call.was_active /\ call.opt_calls = 1
    /\ loss_idx = 1 /\ completed = 1

ActiveEntry == call'.op = "scale_loss" /\ call'.outcome = "yielded" /\ call'.was_active

\* C18: gradients are saved and cleared at region entry only when the loss
\* index is above 0. In the first region of a cycle nothing is saved or
\* cleared, so a gradient G already on a parameter stays under the scaled
\* backward pass and is divided by the region's scale s with it at exit,
\* ending as (G + s*g)/s.
C18_FirstRegionKeepsGrads ==
    [][/\ (ActiveEntry /\ loss_idx = 0)
            => (grad' = grad /\ cached_grads' = <<>>)
       /\ (ActiveEntry /\ loss_idx > 0)
            => /\ \A p \in Params : cached_grads'[p] = grad[p]
               /\ \A p \in Params :
                      grad'[p] = IF grad[p] = None THEN None ELSE Zero
       /\ (ActiveExit /\ loss_idx = 0 /\ NoOverflowNow)
            => /\ cached_grads = <<>>
               /\ \A p \in Params :
                      grad'[p] = IF grad[p] = None THEN None
                                 ELSE Fin(grad[p].n, grad[p].d * loss_scale)]_vars

\* G = 1 was on the parameter, the first region ran backward on the loss
\* scaled by 2 with g = 1, and its exit left (1 + 2*1)/2 = 3/2, not 2
C18_Witness ==
    /\ call.op = "scale_loss_exit" /\ call.outcome = "returned" /\ call.was_active
    /\ call.slot = 0 /\ call.unscale_arg = 2
    /\ grad[1] = Fin(3, 2)

\* C19: an active scale_loss call made with the loss index at num_loss
\* fails only after loss.backward was intercepted and every gradient was
\* saved and cleared: when it fails, the gradients accumulated by the
\* earlier regions of the cycle are zeroed and not restored, and
\* loss.backward is still the warning wrapper.
C19_OverrunLosesGrads ==
    [][(call'.op = "scale_loss" /\ active /\ loss_idx = num_loss)
          => /\ num_loss >= 1
             /\ call'.outcome \in {"AssertionError", "IndexError"}
             /\ pc' = "idle"
             /\ loss_backward' = "warning_wrapper"
             /\ \A p \in Params : call'.cached[p] = grad[p]
             /\ \A p \in Params :
                    grad'[p] = IF grad[p] = None THEN None ELSE Zero
             /\ UNCHANGED <<loss_idx, skip_next, loss_scaler>>]_vars

\* the overrunning call wiped a finite, non-zero gradient of the cycle
C19_Witness ==
    /\ call.op = "scale_loss" /\ call.outcome \in {"AssertionError", "IndexError"}
    /\ call.was_active /\ call.slot = num_loss
    /\ Len(call.cached) > 0
    /\ IsFinite(call.cached[1]) /\ call.cached[1] # Zero
    /\ grad[1] = Zero
    /\ loss_backward = "warning_wrapper"
====
